---- MODULE Spec2Model ----
(***************************************************************************)
(* A model of the two experiment scripts of cuda_scheduling_examiner:      *)
(*   scripts/test_granularity.py        the sweep driver and its           *)
(*                                      configuration generator            *)
(*   scripts/view_scatterplots_eurosys.py  the result aggregator/plotter   *)
(*                                                                         *)
(* Conventions.                                                            *)
(*   - A Python value that may be None is a sequence of length 0 or 1:     *)
(*     <<>> is None and <<v>> is the value v.                              *)
(*   - A Python str that the code builds or parses is a sequence of        *)
(*     one-character strings, so that str(), hex(), int(s, 2) and float()  *)
(*     are conversions that do something.                                  *)
(*   - A real number is kept exactly. The MPS percentage is an integer     *)
(*     count of 1/10000; timestamps are integer microseconds; durations    *)
(*     in milliseconds are integer counts of 1e-6 ms; the mean is a        *)
(*     reduced fraction <<numerator, denominator>> of that unit.           *)
(***************************************************************************)
EXTENDS Integers, Sequences, FiniteSets, TLC

VARIABLES
    \* ---- test_granularity.py
    args,          \* argparse result: tpc_count (None or int), start_count, mig
    available,     \* what pysmctrl.get_tpc_info_cuda(device) returns
    pc,            \* position of the driver
    tpc_count,     \* local of __main__ (None until assigned)
    part_methods,  \* local of __main__
    part_options,  \* local of __main__
    oi, mi,        \* positions of the two for loops (1-based)
    active_tpcs,   \* argument of the current run_process call
    part_method,   \* argument of the current run_process call
    config,        \* local of run_process: None or the generated configuration
    cmds,          \* every os.system command issued so far, with the status
                   \* it returned where the code keeps it (else None)
    runs,          \* every child started by subprocess.Popen so far, with its
                   \* state ("running" or "exited"), what the driver has
                   \* written to its stdin and what it has read from it
    process,       \* local of run_process: the child's position in runs
    exit_status,   \* None while running, else the driver's exit status
    exception,     \* "" or the name of the uncaught exception
    \* ---- view_scatterplots_eurosys.py
    nfiles,        \* len(filenames)
    counter,       \* local of show_plots
    opened,        \* None or the file read by the last loop iteration
    all_scenarios, \* local of show_plots
    printed,       \* the skip reason printed by the last loop iteration, or ""
    apc,           \* position of the aggregator
    agg_exception, \* "" or the name of the uncaught exception
    plotted        \* None or what was handed to axes.plot, per scenario

driver_vars == <<args, available, pc, tpc_count, part_methods, part_options, oi, mi,
                 active_tpcs, part_method, config, cmds, runs, process,
                 exit_status, exception>>

agg_vars == <<nfiles, counter, opened, all_scenarios, printed, apc, agg_exception,
              plotted>>

vars == <<driver_vars, agg_vars>>

\* ------------------------------------------------------------------ bounds

\* Largest total TPC count (and command-line value) explored.
MaxTotal == 5

\* Largest active TPC count handed to generate_config directly.
MaxActive == 9

\* Largest number of result files handed to show_plots.
MaxFiles == 2

\* ------------------------------------------------------------------ helpers

None == <<>>

Some(v) == <<v>>

Max2(a, b) == IF a >= b THEN a ELSE b

Min2(a, b) == IF a <= b THEN a ELSE b

RECURSIVE Pow(_, _)
Pow(b, n) == IF n = 0 THEN 1 ELSE b * Pow(b, n - 1)

\* range() that leaves out one more value at the top.
Range_short(lo, hi) == [i \in 1..Max2(hi - 1 - lo, 0) |-> lo + i - 1]

\* range(lo, hi) as a sequence: lo, lo+1, ..., hi-1 (empty when hi <= lo).
Range(lo, hi) == [i \in 1..Max2(hi - lo, 0) |-> lo + i - 1]

DecChars == <<"0", "1", "2", "3", "4", "5", "6", "7", "8", "9">>

HexChars == <<"0", "1", "2", "3", "4", "5", "6", "7", "8", "9",
              "a", "b", "c", "d", "e", "f">>

\* str(n) for an int n >= 0.
RECURSIVE str(_)
str(n) == IF n < 10 THEN <<DecChars[n + 1]>>
          ELSE str(n \div 10) \o <<DecChars[(n % 10) + 1]>>

\* ------------------------------------------------ test_granularity.py: data

\* The keys of MIG_CONFIGS, in the order MIG_CONFIGS.keys() yields them
\* (insertion order).
MIG_KEYS == <<7, 14, 21, 28, 49>>

\* A table with a geometry the hardware does not have.
MIG_CONFIGS_extra == (7 :> "1g.10gb") @@ (8 :> "1g.10gb") @@ (14 :> "2g.10gb")
                     @@ (21 :> "3g.20gb") @@ (28 :> "4g.20gb") @@ (49 :> "7g.40gb")

MIG_CONFIGS == (7 :> "1g.10gb") @@ (14 :> "2g.10gb") @@ (21 :> "3g.20gb")
               @@ (28 :> "4g.20gb") @@ (49 :> "7g.40gb")

\* epsilon = 0.0001, as a count of 1/PercentScale.
epsilon == 1

\* round(x, 4) keeps 4 decimal places: a percentage is a count of 1/10000.
PercentScale == 10000

\* min(100, ...): the cap, in percent.
PercentCap == 100

\* The exit status of invalid unit-count arguments.
EINVAL == 22

\* The exit status nvidia-smi gives when the GPU is not MiG-capable.
SMI_NOT_SUPPORTED == 6

\* round() of the fraction n/d (d > 0, n >= 0) to an integer, ties to even.
round(n, d) ==
    LET q == n \div d
        r == n % d
    IN  IF 2 * r < d THEN q
        ELSE IF 2 * r > d THEN q + 1
        ELSE IF q % 2 = 0 THEN q ELSE q + 1

\* part_method.lower()
lower(m) == IF m = "MPS" THEN "mps" ELSE m

\* "1" * (n + 1)
Ones_more(n) == [i \in 1..Max2(n + 1, 0) |-> "1"]

\* "1" * n
Ones(n) == [i \in 1..Max2(n, 0) |-> "1"]

\* int(s, 2) for a string of binary digits; None stands for ValueError.
RECURSIVE int2(_)
int2(s) ==
    IF Len(s) = 0 THEN None
    ELSE IF Len(s) = 1 THEN Some(IF s[1] = "1" THEN 1 ELSE 0)
    ELSE Some(2 * int2(SubSeq(s, 1, Len(s) - 1))[1]
              + (IF s[Len(s)] = "1" THEN 1 ELSE 0))

RECURSIVE HexDigits(_)
HexDigits(n) == IF n < 16 THEN <<HexChars[n + 1]>>
                ELSE HexDigits(n \div 16) \o <<HexChars[(n % 16) + 1]>>

\* hex(n) for n >= 0
hex(n) == <<"0", "x">> \o HexDigits(n)

\* The percentage without the cap at 100.
mps_thread_percentage_uncapped(total_tpcs, active) ==
    round(100 * active * PercentScale + epsilon * total_tpcs, total_tpcs)

\* min(100, round(100 * active_tpcs / total_tpcs + epsilon, 4)), as a count of
\* 1/PercentScale.  (Python rounds the double nearest to the quotient; for
\* total_tpcs < 128 the quotient is never within a double's error of a tie, so
\* the exact rounding below is the value Python stores.)
mps_thread_percentage(total_tpcs, active) ==
    Min2(PercentCap * PercentScale,
         round(100 * active * PercentScale + epsilon * total_tpcs, total_tpcs))

\* "~" + hex(int("1" * active_tpcs, 2)); None stands for ValueError.
sm_mask(active) ==
    LET v == int2(Ones(active))
    IN  IF v = None THEN None ELSE Some(<<"~">> \o hex(v[1]))

\* plugin_config, before the method-specific key is added.
plugin_config(method, active) ==
    [label |-> str(active),
     log_name |-> <<"eurosys25_", method, str(active), "tpcs.json">>]

\* The dictionary that json.dumps serialises.
overall_config(method, plugin) ==
    [name |-> <<"TPC Count vs. Performance with ", method>>,
     benchmarks |-> <<plugin>>]

\* The exit statuses os.system can report for nvidia-smi: exited with 0, with
\* 6, with another status, or killed by a signal.
SmiStatuses == {[exited |-> TRUE, status |-> 0],
                [exited |-> TRUE, status |-> SMI_NOT_SUPPORTED],
                [exited |-> TRUE, status |-> 1],
                [exited |-> FALSE, status |-> 0]}

\* "not os.WIFEXITED(smi_status) or os.WEXITSTATUS(smi_status) == 6": the
\* capability query says the GPU cannot do MiG.
not_capable(smi_status) ==
    ~smi_status.exited \/ smi_status.status = SMI_NOT_SUPPORTED

\* The check of the capability query, used for the creation as well.
create_failed_as_query(smi_status) ==
    ~smi_status.exited \/ smi_status.status = SMI_NOT_SUPPORTED

\* "not os.WIFEXITED(smi_status) or os.WEXITSTATUS(smi_status) != 0": the
\* instance was not created.
create_failed(smi_status) ==
    ~smi_status.exited \/ smi_status.status # 0

\* The comparison with >= for >.
exceeds_available_ge(tc, avail) == tc >= avail

\* "tpc_count > pysmctrl.get_tpc_info_cuda(args.device)"
exceeds_available(tc, avail) == tc > avail

\* ---------------------------------------------- test_granularity.py: actions

\* An uncaught exception: the interpreter prints a traceback and exits with 1.
Raise(e) ==
    /\ pc' = "crashed"
    /\ exception' = e
    /\ exit_status' = Some(1)

\* exit(22)
exit(code) ==
    /\ pc' = "exited"
    /\ exit_status' = Some(code)
    /\ exception' = ""

\* __main__ up to the loops: argument checks and the choice of the sweep.
main ==
    /\ pc = "main"
    /\ LET tc == IF args.tpc_count # None THEN args.tpc_count[1] ELSE available
       IN  IF args.tpc_count # None /\ args.tpc_count[1] <= 0
           THEN /\ exit(EINVAL)
                /\ tpc_count' = Some(tc)
                /\ UNCHANGED <<part_methods, part_options>>
           ELSE IF args.start_count <= 0
           THEN /\ exit(EINVAL)
                /\ tpc_count' = Some(tc)
                /\ UNCHANGED <<part_methods, part_options>>
           ELSE IF args.mig
           THEN /\ tpc_count' = Some(tc)
                /\ part_methods' = <<"mig">>
                /\ part_options' = MIG_KEYS
                /\ pc' = "loop"
                /\ UNCHANGED <<exit_status, exception>>
           ELSE IF exceeds_available(tc, available)
           THEN /\ exit(EINVAL)
                /\ tpc_count' = Some(tc)
                /\ UNCHANGED <<part_methods, part_options>>
           ELSE /\ tpc_count' = Some(tc)
                /\ part_methods' = <<"mps", "libsmctrl">>
                /\ part_options' = Range(args.start_count, tc + 1)
                /\ pc' = "loop"
                /\ UNCHANGED <<exit_status, exception>>
    /\ UNCHANGED <<args, available, oi, mi, active_tpcs, part_method, config, cmds,
                   runs, process>>
    /\ UNCHANGED agg_vars

\* The two nested for loops: take the next (active_tpcs, part_method) and call
\* run_process, or fall off the end of the script.
loop ==
    /\ pc = "loop"
    /\ IF oi > Len(part_options)
       THEN /\ pc' = "done"
            /\ exit_status' = Some(0)
            /\ UNCHANGED <<oi, mi, active_tpcs, part_method, config>>
       ELSE /\ active_tpcs' = part_options[oi]
            /\ part_method' = part_methods[mi]
            /\ IF mi < Len(part_methods)
               THEN mi' = mi + 1 /\ oi' = oi
               ELSE mi' = 1 /\ oi' = oi + 1
            /\ config' = None
            /\ pc' = "generate_config"
            /\ UNCHANGED exit_status
    /\ UNCHANGED <<args, available, tpc_count, part_methods, part_options, cmds,
                   runs, process, exception>>
    /\ UNCHANGED agg_vars

\* generate_config for the methods that run no external command: "mps",
\* "libsmctrl", and the final else of the method dispatch.
generate_config ==
    /\ pc = "generate_config"
    /\ lower(part_method) # "mig"
    /\ LET plugin == plugin_config(part_method, active_tpcs)
           total_tpcs == tpc_count[1]
           mask == sm_mask(active_tpcs)
       IN  IF lower(part_method) = "mps"
           THEN IF total_tpcs = 0
                THEN Raise("ZeroDivisionError") /\ UNCHANGED config
                ELSE /\ config' = Some(overall_config(part_method,
                            [mps_thread_percentage |->
                                mps_thread_percentage(total_tpcs, active_tpcs)]
                            @@ plugin))
                     /\ pc' = "Popen"
                     /\ UNCHANGED <<exit_status, exception>>
           ELSE IF lower(part_method) = "libsmctrl"
           THEN IF mask = None
                THEN Raise("ValueError") /\ UNCHANGED config
                ELSE /\ config' = Some(overall_config(part_method,
                            [sm_mask |-> mask[1]] @@ plugin))
                     /\ pc' = "Popen"
                     /\ UNCHANGED <<exit_status, exception>>
           ELSE Raise("Exception: Unknown partitioning type") /\ UNCHANGED config
    /\ UNCHANGED <<args, available, tpc_count, part_methods, part_options, oi, mi,
                   active_tpcs, part_method, cmds, runs, process>>
    /\ UNCHANGED agg_vars

\* generate_config for "mig", first part: the capability query, its check, and
\* the lookup of the geometry in MIG_CONFIGS.
mig_list_profiles ==
    /\ pc = "generate_config"
    /\ lower(part_method) = "mig"
    /\ \E smi_status \in SmiStatuses :
        /\ cmds' = Append(cmds, [cmd |-> "nvidia-smi mig --list-gpu-instance-profiles",
                                 arg |-> "", smi_status |-> Some(smi_status)])
        /\ IF not_capable(smi_status)
           THEN Raise("Exception: MiG-capable GPU required")
           ELSE IF active_tpcs \notin DOMAIN MIG_CONFIGS
           THEN Raise("KeyError")
           ELSE pc' = "destroy_compute_instance" /\ UNCHANGED <<exit_status, exception>>
    /\ UNCHANGED <<args, available, tpc_count, part_methods, part_options, oi, mi,
                   active_tpcs, part_method, config, runs, process>>
    /\ UNCHANGED agg_vars

\* os.system("sudo nvidia-smi mig --destroy-compute-instance"); the status is
\* not looked at.
mig_destroy_compute_instance ==
    /\ pc = "destroy_compute_instance"
    /\ cmds' = Append(cmds, [cmd |-> "sudo nvidia-smi mig --destroy-compute-instance",
                             arg |-> "", smi_status |-> None])
    /\ pc' = "destroy_gpu_instance"
    /\ UNCHANGED <<args, available, tpc_count, part_methods, part_options, oi, mi,
                   active_tpcs, part_method, config, runs, process, exit_status,
                   exception>>
    /\ UNCHANGED agg_vars

\* os.system("sudo nvidia-smi mig --destroy-gpu-instance"); the status is not
\* looked at.
mig_destroy_gpu_instance ==
    /\ pc = "destroy_gpu_instance"
    /\ cmds' = Append(cmds, [cmd |-> "sudo nvidia-smi mig --destroy-gpu-instance",
                             arg |-> "", smi_status |-> None])
    /\ pc' = "create_gpu_instance"
    /\ UNCHANGED <<args, available, tpc_count, part_methods, part_options, oi, mi,
                   active_tpcs, part_method, config, runs, process, exit_status,
                   exception>>
    /\ UNCHANGED agg_vars

\* The creation of the GPU instance, its check, and the rest of
\* generate_config.
mig_create_gpu_instance ==
    /\ pc = "create_gpu_instance"
    /\ \E smi_status \in SmiStatuses :
        /\ cmds' = Append(cmds, [cmd |-> "sudo nvidia-smi mig --create-gpu-instance",
                                 arg |-> MIG_CONFIGS[active_tpcs],
                                 smi_status |-> Some(smi_status)])
        /\ IF create_failed(smi_status)
           THEN Raise("Exception: Unable to create MiG instance") /\ UNCHANGED config
           ELSE /\ config' = Some(overall_config(part_method,
                                    plugin_config(part_method, active_tpcs)))
                /\ pc' = "Popen"
                /\ UNCHANGED <<exit_status, exception>>
    /\ UNCHANGED <<args, available, tpc_count, part_methods, part_options, oi, mi,
                   active_tpcs, part_method, runs, process>>
    /\ UNCHANGED agg_vars

\* subprocess.Popen(["./bin/runner", "-"], stdin=subprocess.PIPE, ...)
Popen ==
    /\ pc = "Popen"
    /\ runs' = Append(runs, [active_tpcs |-> active_tpcs, part_method |-> part_method,
                             state |-> "running", stdin |-> None, read |-> None])
    /\ process' = Len(runs) + 1
    /\ pc' = "communicate"
    /\ UNCHANGED <<args, available, tpc_count, part_methods, part_options, oi, mi,
                   active_tpcs, part_method, config, cmds, exit_status, exception>>
    /\ UNCHANGED agg_vars

\* process.communicate(input=config), first half: the input is written to the
\* child's stdin and the pipe is closed.
communicate_write ==
    /\ pc = "communicate"
    /\ runs' = [runs EXCEPT ![process].stdin = config]
    /\ pc' = "wait"
    /\ UNCHANGED <<args, available, tpc_count, part_methods, part_options, oi, mi,
                   active_tpcs, part_method, config, cmds, process, exit_status,
                   exception>>
    /\ UNCHANGED agg_vars

\* A driver that does not wait for the child.
communicate_nowait(p) == TRUE

\* Whether communicate may return: the child has terminated.
communicate_done(p) == runs[p].state = "exited"

\* process.communicate(input=config), second half: block until the child has
\* terminated; run_process then returns to the loops.
communicate_wait ==
    /\ pc = "wait"
    /\ communicate_done(process)
    /\ pc' = "loop"
    /\ UNCHANGED <<args, available, tpc_count, part_methods, part_options, oi, mi,
                   active_tpcs, part_method, config, cmds, runs, process,
                   exit_status, exception>>
    /\ UNCHANGED agg_vars

\* ./bin/runner - : the runner reads its configuration from standard input.
runner_read ==
    /\ \E p \in 1..Len(runs) :
        /\ runs[p].state = "running"
        /\ runs[p].stdin # None
        /\ runs[p].read = None
        /\ runs' = [runs EXCEPT ![p].read = runs[p].stdin]
    /\ UNCHANGED <<args, available, pc, tpc_count, part_methods, part_options, oi, mi,
                   active_tpcs, part_method, config, cmds, process, exit_status,
                   exception>>
    /\ UNCHANGED agg_vars

\* ./bin/runner - : the runner has run its configuration and terminates.
runner_exit ==
    /\ \E p \in 1..Len(runs) :
        /\ runs[p].state = "running"
        /\ runs[p].read # None
        /\ runs' = [runs EXCEPT ![p].state = "exited"]
    /\ UNCHANGED <<args, available, pc, tpc_count, part_methods, part_options, oi, mi,
                   active_tpcs, part_method, config, cmds, process, exit_status,
                   exception>>
    /\ UNCHANGED agg_vars

\* ------------------------------------- view_scatterplots_eurosys.py: data

\* --times_key, at its default.
times_key == "execute_times"

\* Durations are converted to milliseconds: "* 1000.0".
MsPerSecond == 1000

RECURSIVE GCD(_, _)
GCD(a, b) == IF b = 0 THEN a ELSE GCD(b, a % b)

\* The fraction n/d (n >= 0, d > 0) in lowest terms.
Frac(n, d) == LET g == GCD(n, d) IN <<n \div g, d \div g>>

\* The value of a decimal digit, or -1 for any other character.
DigitVal(c) == IF \E i \in 1..10 : DecChars[i] = c
               THEN (CHOOSE i \in 1..10 : DecChars[i] = c) - 1
               ELSE -1

RECURSIVE ParseDigits(_)
ParseDigits(s) ==
    IF Len(s) = 0 THEN 0
    ELSE 10 * ParseDigits(SubSeq(s, 1, Len(s) - 1)) + DigitVal(s[Len(s)])

\* convert_to_float(s): float(s), or None when float() raises.  The labels
\* modelled are strings of decimal digits (what the driver's str(active_tpcs)
\* writes) and strings that are no number at all.
convert_to_float(s) ==
    IF Len(s) > 0 /\ \A i \in 1..Len(s) : DigitVal(s[i]) >= 0
    THEN Some(ParseDigits(s))
    ELSE None

\* The inner while loop advancing by one timestamp instead of two.
RECURSIVE entry_durations_step1(_, _)
entry_durations_step1(times, i) ==
    IF ~(i < Len(times)) THEN Some(<<>>)
    ELSE IF i + 2 > Len(times) THEN None
    ELSE LET rest == entry_durations_step1(times, i + 1)
         IN  IF rest = None THEN None
             ELSE Some(<<times[i + 2] - times[i + 1]>> \o rest[1])

\* The inner while loop of plugin_summary_values over one entry's timestamps,
\* from 0-based position i; None stands for the IndexError of times[i + 1].
RECURSIVE entry_durations(_, _)
entry_durations(times, i) ==
    IF ~(i < Len(times)) THEN Some(<<>>)
    ELSE IF i + 2 > Len(times) THEN None
    ELSE LET rest == entry_durations(times, i + 2)
         IN  IF rest = None THEN None
             ELSE Some(<<times[i + 2] - times[i + 1]>> \o rest[1])

\* The for loop of plugin_summary_values over plugin["times"], from entry k.
RECURSIVE durations_from(_, _, _)
durations_from(entries, key, k) ==
    IF k > Len(entries) THEN Some(<<>>)
    ELSE IF key \notin DOMAIN entries[k] THEN durations_from(entries, key, k + 1)
    ELSE LET here == entry_durations(entries[k][key], 0)
             rest == durations_from(entries, key, k + 1)
         IN  IF here = None \/ rest = None THEN None
             ELSE Some(here[1] \o rest[1])

SeqMin(q) == CHOOSE x \in {q[i] : i \in 1..Len(q)} : \A j \in 1..Len(q) : x <= q[j]

SeqMax(q) == CHOOSE x \in {q[i] : i \in 1..Len(q)} : \A j \in 1..Len(q) : x >= q[j]

RECURSIVE SeqSum(_)
SeqSum(q) == IF Len(q) = 0 THEN 0 ELSE q[1] + SeqSum(Tail(q))

\* plugin_summary_values(plugin, times_key): [exc |-> "", value |-> <<min, max,
\* mean>>], or the exception it raises.
plugin_summary_values(plugin, key) ==
    LET durations == durations_from(plugin["times"], key, 1)
    IN  IF durations = None THEN [exc |-> "IndexError", value |-> <<>>]
        ELSE IF Len(durations[1]) = 0 THEN [exc |-> "ValueError", value |-> <<>>]
        ELSE [exc |-> "",
              value |-> <<SeqMin(durations[1]) * MsPerSecond,
                          SeqMax(durations[1]) * MsPerSecond,
                          Frac(SeqSum(durations[1]) * MsPerSecond,
                               Len(durations[1]))>>]

\* x_values.sort()
RECURSIVE Sorted(_)
Sorted(S) == IF S = {} THEN <<>>
             ELSE LET m == CHOOSE x \in S : \A y \in S : x <= y
                  IN  <<m>> \o Sorted(S \ {m})

\* scenario_to_distribution(scenario): <<x values, min y values, max y values,
\* mean y values>>
scenario_to_distribution(scenario) ==
    LET x_values == Sorted(DOMAIN scenario)
    IN  <<x_values,
          [i \in 1..Len(x_values) |-> scenario[x_values[i]][1]],
          [i \in 1..Len(x_values) |-> scenario[x_values[i]][2]],
          [i \in 1..Len(x_values) |-> scenario[x_values[i]][3]]>>

\* One iteration of the for loop of show_plots on a parsed file: the scenario
\* map afterwards, the skip reason printed, and the exception raised (if any).
loop_body(parsed, scenarios) ==
    IF "label" \notin DOMAIN parsed
    THEN [exc |-> "", printed |-> "no \"label\" field in file.", scenarios |-> scenarios]
    ELSE IF "times" \notin DOMAIN parsed
    THEN [exc |-> "KeyError", printed |-> "", scenarios |-> scenarios]
    ELSE IF Len(parsed["times"]) < 2
    THEN [exc |-> "", printed |-> "no recorded times in file.", scenarios |-> scenarios]
    ELSE LET float_value == convert_to_float(parsed["label"])
             summary_values == plugin_summary_values(parsed, times_key)
         IN  IF float_value = None
             THEN [exc |-> "", printed |-> "label isn't a number.",
                   scenarios |-> scenarios]
             ELSE IF summary_values.exc # ""
             THEN [exc |-> summary_values.exc, printed |-> "", scenarios |-> scenarios]
             ELSE IF "scenario_name" \notin DOMAIN parsed
             THEN [exc |-> "KeyError", printed |-> "", scenarios |-> scenarios]
             ELSE LET name == parsed["scenario_name"]
                      old == IF name \in DOMAIN scenarios THEN scenarios[name]
                             ELSE <<>>
                  IN  [exc |-> "", printed |-> "",
                       scenarios |-> (name :> ((float_value[1] :> summary_values.value)
                                               @@ old)) @@ scenarios]

\* ---- the result files of the model

\* A JSON object with the keys whose value is not None.
MkObj(l, s, t) ==
    LET full == [label |-> l, scenario_name |-> s, times |-> t]
    IN  [k \in {k \in {"label", "scenario_name", "times"} : full[k] # None}
            |-> full[k][1]]

LabelInputs == {None, Some(str(7)), Some(str(14)), Some(<<"x">>)}

ScenarioInputs == {None, Some("TPC Count vs. Performance with mps"),
                   Some("TPC Count vs. Performance with mig")}

\* An entry of "times" without any key, as the runner writes first.
EmptyEntry == <<>>

TimesInputs ==
    {None,
     \* one entry holding one (start, end) pair: 1.0 s, 1.002 s
     Some(<<[execute_times |-> <<1000000, 1002000>>]>>),
     \* the same pair after the runner's leading empty entry
     Some(<<EmptyEntry, [execute_times |-> <<1000000, 1002000>>]>>),
     \* three pairs over two entries, and an entry under another key
     Some(<<EmptyEntry, [execute_times |-> <<0, 3000, 10000, 14000>>],
            [kernel_times |-> <<5, 6>>], [execute_times |-> <<20000, 22001>>]>>),
     \* an odd number of timestamps
     Some(<<EmptyEntry, [execute_times |-> <<1000000, 1002000, 1005000>>]>>),
     \* no entry holds the times key
     Some(<<EmptyEntry, [kernel_times |-> <<5, 6>>]>>)}

\* The files: text that is not JSON, and every object built from the inputs.
Files ==
    {[json |-> FALSE, parsed |-> <<>>]}
    \cup {[json |-> TRUE, parsed |-> MkObj(l, s, t)] :
            l \in LabelInputs, s \in ScenarioInputs, t \in TimesInputs}

\* ---------------------------------- view_scatterplots_eurosys.py: actions

\* One iteration of "for name in filenames" in show_plots: open, parse, and
\* either skip, raise, or accumulate.
parse_file ==
    /\ apc = "loop"
    /\ counter <= nfiles
    /\ \E f \in Files :
        /\ opened' = Some(f)
        /\ counter' = counter + 1
        /\ IF ~f.json
           THEN /\ apc' = "aborted"
                /\ agg_exception' = "JSONDecodeError"
                /\ printed' = ""
                /\ UNCHANGED all_scenarios
           ELSE LET r == loop_body(f.parsed, all_scenarios)
                IN  /\ all_scenarios' = r.scenarios
                    /\ printed' = r.printed
                    /\ agg_exception' = r.exc
                    /\ apc' = IF r.exc # "" THEN "aborted" ELSE "loop"
    /\ UNCHANGED <<nfiles, plotted>>
    /\ UNCHANGED driver_vars

\* The rest of show_plots once every file is read: one axes.plot call per
\* scenario, with the label values sorted and the mean durations, then
\* plot.show().
show ==
    /\ apc = "loop"
    /\ counter > nfiles
    /\ plotted' = Some([name \in DOMAIN all_scenarios |->
                        LET data == scenario_to_distribution(all_scenarios[name])
                        IN  [x |-> data[1], y |-> data[4]]])
    /\ apc' = "shown"
    /\ UNCHANGED <<nfiles, counter, opened, all_scenarios, printed, agg_exception>>
    /\ UNCHANGED driver_vars

\* ------------------------------------------------------------ specifications

DriverIdle ==
    /\ args = [tpc_count |-> None, start_count |-> 1, mig |-> FALSE]
    /\ available = 1
    /\ pc = "idle"
    /\ tpc_count = None
    /\ part_methods = <<>>
    /\ part_options = <<>>
    /\ oi = 1
    /\ mi = 1
    /\ active_tpcs = 0
    /\ part_method = ""
    /\ config = None
    /\ cmds = <<>>
    /\ runs = <<>>
    /\ process = 0
    /\ exit_status = None
    /\ exception = ""

AggIdle ==
    /\ nfiles = 0
    /\ counter = 1
    /\ opened = None
    /\ all_scenarios = <<>>
    /\ printed = ""
    /\ apc = "idle"
    /\ agg_exception = ""
    /\ plotted = None

\* The command lines of the sweep driver: --tpc_count absent or an int,
\* --start_count an int (default 1), --mig given or not; and the TPC count the
\* GPU reports.
Init ==
    /\ args \in [tpc_count : {None} \cup {Some(n) : n \in -1..(MaxTotal + 1)},
                 start_count : -1..(MaxTotal + 1),
                 mig : BOOLEAN]
    /\ available \in 1..MaxTotal
    /\ pc = "main"
    /\ tpc_count = None
    /\ part_methods = <<>>
    /\ part_options = <<>>
    /\ oi = 1
    /\ mi = 1
    /\ active_tpcs = 0
    /\ part_method = ""
    /\ config = None
    /\ cmds = <<>>
    /\ runs = <<>>
    /\ process = 0
    /\ exit_status = None
    /\ exception = ""
    /\ AggIdle

run_process ==
    \/ generate_config
    \/ mig_list_profiles
    \/ mig_destroy_compute_instance
    \/ mig_destroy_gpu_instance
    \/ mig_create_gpu_instance
    \/ Popen
    \/ communicate_write
    \/ communicate_wait

runner ==
    \/ runner_read
    \/ runner_exit

Next ==
    \/ main
    \/ loop
    \/ run_process
    \/ runner

\* The sweep driver, from its command line to its exit.
Spec == Init /\ [][Next]_vars

\* The method names handed to run_process directly.
MethodInputs == {"mps", "MPS", "libsmctrl", "mig", "foo"}

\* The active TPC counts handed to run_process directly: every count up to
\* MaxActive for every method and, for "mig", the keys of MIG_CONFIGS as well
\* (a mask of 49 bits is beyond the integers of the model checker).
ActiveInputs(m) ==
    IF lower(m) = "mig" THEN (0..MaxActive) \cup {MIG_KEYS[i] : i \in 1..Len(MIG_KEYS)}
    ELSE 0..MaxActive

\* One call run_process(device, part_method, total_tpcs, active_tpcs,
\* iterations) with arguments of any value.
GenInit ==
    /\ args = [tpc_count |-> None, start_count |-> 1, mig |-> FALSE]
    /\ available = 1
    /\ pc = "loop"
    /\ tpc_count \in {Some(n) : n \in 0..MaxTotal}
    /\ part_methods \in {<<m>> : m \in MethodInputs}
    /\ part_options \in {<<a>> : a \in ActiveInputs(part_methods[1])}
    /\ oi = 1
    /\ mi = 1
    /\ active_tpcs = 0
    /\ part_method = ""
    /\ config = None
    /\ cmds = <<>>
    /\ runs = <<>>
    /\ process = 0
    /\ exit_status = None
    /\ exception = ""
    /\ AggIdle

GenNext ==
    \/ loop
    \/ run_process
    \/ runner

GenSpec == GenInit /\ [][GenNext]_vars

\* show_plots on a list of up to MaxFiles files, each of any content.
AggInit ==
    /\ DriverIdle
    /\ nfiles \in 0..MaxFiles
    /\ counter = 1
    /\ opened = None
    /\ all_scenarios = <<>>
    /\ printed = ""
    /\ apc = "loop"
    /\ agg_exception = ""
    /\ plotted = None

AggNext ==
    \/ parse_file
    \/ show

AggSpec == AggInit /\ [][AggNext]_vars

\* ------------------------------------------------ properties of the driver

Abs(x) == IF x < 0 THEN -x ELSE x

Running == {p \in 1..Len(runs) : runs[p].state = "running"}

\* The driver is generating a configuration or about to start its runner.
Generating == pc \in {"generate_config", "destroy_compute_instance",
                      "destroy_gpu_instance", "create_gpu_instance", "Popen"}

\* C1: runs never overlap.  At most one runner process exists at any time,
\* and whenever the driver is between two runs, generating the next
\* configuration (MiG commands included) or about to start its runner, every
\* runner started so far has read the whole configuration written to its
\* standard input and has terminated.
C1_NoOverlap ==
    /\ Cardinality(Running) <= 1
    /\ (pc = "loop" \/ Generating) =>
           \A p \in 1..Len(runs) :
               /\ runs[p].state = "exited"
               /\ runs[p].stdin # None
               /\ runs[p].read = runs[p].stdin
               /\ runs[p].read[1].benchmarks[1].label = str(runs[p].active_tpcs)

\* A second configuration is being generated after the first runner ended.
C1_Witness ==
    /\ Generating
    /\ Len(runs) >= 1
    /\ runs[1].state = "exited"
    /\ (args.mig => Len(cmds) > 4)

\* The total of the sweep: the user-specified one, else the detected one.
Total == IF args.tpc_count # None THEN args.tpc_count[1] ELSE available

\* The (count, method) pairs of the runners started so far, in order.
Started == [p \in 1..Len(runs) |-> <<runs[p].active_tpcs, runs[p].part_method>>]

\* The pairs of a non-MiG sweep: counts ascending from start_count to the
\* total, "mps" before "libsmctrl" at each count.
ExpectedPairs ==
    [k \in 1..(2 * Max2(Total - args.start_count + 1, 0)) |->
        <<args.start_count + ((k - 1) \div 2),
          IF k % 2 = 1 THEN "mps" ELSE "libsmctrl">>]

MigCounts == {7, 14, 21, 28, 49}

\* C10: the sweep covers its configurations exactly once each.  At every
\* moment the runners started are a prefix of the expected ones, and when the
\* driver ends normally they are all of them: without --mig one runner per
\* (count, method), start_count <= count <= total, counts ascending, mps
\* before libsmctrl, every count positive and at most the total; with --mig one
\* runner per count of {7, 14, 21, 28, 49}, each with method mig.
C10_SweepCoverage ==
    /\ ~args.mig =>
        /\ Len(Started) <= Len(ExpectedPairs)
        /\ \A p \in 1..Len(Started) :
            /\ Started[p] = ExpectedPairs[p]
            /\ Started[p][1] >= 1
            /\ Started[p][1] <= Total
        /\ pc = "done" => Len(Started) = Len(ExpectedPairs)
    /\ args.mig =>
        /\ \A p \in 1..Len(Started) :
            /\ Started[p][1] \in MigCounts
            /\ Started[p][2] = "mig"
        /\ \A p, q \in 1..Len(Started) : Started[p][1] = Started[q][1] => p = q
        /\ pc = "done" =>
            \A c \in MigCounts : \E p \in 1..Len(Started) : Started[p][1] = c

\* A non-MiG sweep of at least two counts has ended normally.
C10_Witness ==
    /\ pc = "done"
    /\ ~args.mig
    /\ Len(runs) >= 4
    /\ args.start_count >= 2

\* The unit-count arguments the claim calls invalid: a requested count
\* (--start_count, or the user-specified --tpc_count) above the total
\* (auto-detected or user-specified), or a count that is not positive.
InvalidCounts ==
    \/ args.start_count > Total
    \/ args.tpc_count # None /\ args.tpc_count[1] > available
    \/ args.start_count <= 0
    \/ args.tpc_count # None /\ args.tpc_count[1] <= 0

\* C5 as stated: with invalid unit-count arguments the driver starts no runner
\* and, when it ends, has exited with status 22.
C5_Original ==
    InvalidCounts =>
        /\ runs = <<>>
        /\ pc \in {"exited", "done", "crashed"} =>
               (pc = "exited" /\ exit_status = Some(EINVAL))

\* The arguments the code rejects.
RejectedCounts ==
    \/ args.tpc_count # None /\ args.tpc_count[1] <= 0
    \/ args.start_count <= 0
    \/ ~args.mig /\ args.tpc_count # None /\ args.tpc_count[1] > available

\* C5, amended: the driver exits with status 22, before any runner, exactly
\* when --tpc_count or --start_count is not positive or, without --mig, the
\* user-specified --tpc_count exceeds the auto-detected total.  A start_count
\* above the total is not rejected: without --mig the sweep is empty and the
\* driver ends with status 0 and no runner.
C5_Validation ==
    /\ RejectedCounts =>
        /\ runs = <<>>
        /\ cmds = <<>>
        /\ pc # "main" => (pc = "exited" /\ exit_status = Some(EINVAL))
    /\ ~RejectedCounts => (pc # "exited" /\ exit_status # Some(EINVAL))
    /\ (~RejectedCounts /\ ~args.mig /\ args.start_count > Total) =>
        /\ runs = <<>>
        /\ pc \in {"main", "loop", "done"}
        /\ pc = "done" => exit_status = Some(0)

\* The driver has rejected a user-specified total above the detected one.
C5_Witness ==
    /\ pc = "exited"
    /\ exit_status = Some(EINVAL)
    /\ args.tpc_count # None
    /\ args.tpc_count[1] > available
    /\ args.start_count >= 1

\* The order of the external commands of one MiG generation.
MigCommandOrder == <<"nvidia-smi mig --list-gpu-instance-profiles",
                     "sudo nvidia-smi mig --destroy-compute-instance",
                     "sudo nvidia-smi mig --destroy-gpu-instance",
                     "sudo nvidia-smi mig --create-gpu-instance">>

\* C9: the commands of MiG generation come in the order query, destroy
\* compute instances, destroy GPU instances, create; the creation names the
\* geometry mapped from the count of its iteration.  A query that reports "not
\* capable" is the last command issued, and a creation that does not exit with
\* 0 is too; in both cases the driver has failed with no configuration and
\* without a runner for that iteration.
C9_MigCommands ==
    \A i \in 1..Len(cmds) :
        LET iteration == ((i - 1) \div 4) + 1
            step == ((i - 1) % 4) + 1
        IN  /\ cmds[i].cmd = MigCommandOrder[step]
            /\ step = 4 => cmds[i].arg = MIG_CONFIGS[MIG_KEYS[iteration]]
            /\ (step = 1 /\ (~cmds[i].smi_status[1].exited
                             \/ cmds[i].smi_status[1].status = 6)) =>
                   /\ i = Len(cmds)
                   /\ pc = "crashed"
                   /\ config = None
                   /\ Len(runs) = iteration - 1
            /\ (step = 4 /\ (~cmds[i].smi_status[1].exited
                             \/ cmds[i].smi_status[1].status # 0)) =>
                   /\ i = Len(cmds)
                   /\ pc = "crashed"
                   /\ config = None
                   /\ Len(runs) = iteration - 1
            /\ (step = 4 /\ i < Len(cmds)) => Len(runs) >= iteration

\* The creation of the second iteration has failed with status 1.
C9_Witness ==
    /\ Len(cmds) = 8
    /\ cmds[8].smi_status = Some([exited |-> TRUE, status |-> 1])
    /\ pc = "crashed"
    /\ Len(runs) = 1

\* ---------------------------------------------- properties of the generator

\* The configuration of the current call is one of method "mps".
MpsConfig ==
    /\ config # None
    /\ lower(part_method) = "mps"
    /\ "mps_thread_percentage" \in DOMAIN config[1].benchmarks[1]

\* 100 * active / total as a count of 1/PercentScale, times total.
ExactTimesTotal == 100 * PercentScale * active_tpcs

\* C2 as stated: for 1 <= active <= total the stored percentage is within
\* epsilon (0.0001) of 100 * active / total and never exceeds 100.
C2_Original ==
    (MpsConfig /\ 1 <= active_tpcs /\ active_tpcs <= tpc_count[1]) =>
        LET v == config[1].benchmarks[1].mps_thread_percentage
            t == tpc_count[1]
        IN  /\ Abs(v * t - ExactTimesTotal) <= epsilon * t
            /\ v <= PercentCap * PercentScale

\* C2, amended: for 1 <= active <= total the stored percentage is 100 * active
\* / total rounded to 4 decimal places plus epsilon, capped at 100.  So it is
\* never below 100 * active / total, exceeds it by at most 1.5 epsilon
\* (0.00015), is a whole count of 0.0001, and never exceeds 100.
C2_Percentage ==
    (MpsConfig /\ 1 <= active_tpcs /\ active_tpcs <= tpc_count[1]) =>
        LET v == config[1].benchmarks[1].mps_thread_percentage
            t == tpc_count[1]
        IN  /\ v \in Nat
            /\ v <= PercentCap * PercentScale
            /\ v * t >= ExactTimesTotal
            /\ 2 * (v * t - ExactTimesTotal) <= 3 * epsilon * t
            /\ v < PercentCap * PercentScale =>
                   2 * Abs((v - epsilon) * t - ExactTimesTotal) <= t

\* 2 of 3 TPCs: 66.6668 is stored, 0.000133 above 66.6667.
C2_Witness ==
    /\ MpsConfig
    /\ active_tpcs = 2
    /\ tpc_count = Some(3)
    /\ config[1].benchmarks[1].mps_thread_percentage = 666668

\* The configuration of the current call is one of method "libsmctrl".
MaskConfig ==
    /\ config # None
    /\ lower(part_method) = "libsmctrl"
    /\ "sm_mask" \in DOMAIN config[1].benchmarks[1]

\* The value of a hexadecimal digit.
HexVal(c) == (CHOOSE i \in 1..16 : HexChars[i] = c) - 1

\* The value of a string of hexadecimal digits.
ParseHex(s) ==
    LET RECURSIVE Go(_, _)
        Go(k, acc) == IF k > Len(s) THEN acc ELSE Go(k + 1, 16 * acc + HexVal(s[k]))
    IN  Go(1, 0)

Bit(v, b) == (v \div Pow(2, b)) % 2

\* C3: for every active count >= 1 the mask-based generation succeeds and
\* sm_mask is "~" followed by "0x" and hexadecimal digits whose value has
\* exactly the bits 0..active-1 set; active = 5 yields "~0x1f".
C3_Mask ==
    /\ (lower(part_method) = "libsmctrl" /\ active_tpcs >= 1
            /\ pc \notin {"loop", "generate_config"}) => MaskConfig
    /\ MaskConfig =>
        LET m == config[1].benchmarks[1].sm_mask
            digits == SubSeq(m, 4, Len(m))
            v == ParseHex(digits)
        IN  /\ Len(m) >= 4
            /\ m[1] = "~" /\ m[2] = "0" /\ m[3] = "x"
            /\ \A k \in 1..Len(digits) : \E i \in 1..16 : HexChars[i] = digits[k]
            /\ v = Pow(2, active_tpcs) - 1
            /\ \A b \in 0..(4 * Len(digits)) : Bit(v, b) = 1 <=> b < active_tpcs
            /\ active_tpcs = 5 => m = <<"~", "0", "x", "1", "f">>

\* The mask of 5 active TPCs has been generated.
C3_Witness ==
    /\ MaskConfig
    /\ active_tpcs = 5
    /\ config[1].benchmarks[1].sm_mask = <<"~", "0", "x", "1", "f">>

\* C4: for method "mig" a configuration is produced only for an active count
\* of {7, 14, 21, 28, 49}; for any other count generate_config raises, no
\* configuration exists, no instance is destroyed or created and no runner is
\* started.
C4_MigCounts ==
    /\ (lower(part_method) = "mig" /\ config # None) => active_tpcs \in MigCounts
    /\ (lower(part_method) = "mig" /\ pc # "loop" /\ active_tpcs \notin MigCounts) =>
        /\ config = None
        /\ runs = <<>>
        /\ pc \in {"generate_config", "crashed"}
        /\ pc = "crashed" => exception # ""
        /\ Len(cmds) <= 1

\* A count outside the table was refused after a successful capability query.
C4_Witness ==
    /\ lower(part_method) = "mig"
    /\ active_tpcs = 8
    /\ pc = "crashed"
    /\ exception = "KeyError"
    /\ runs = <<>>

\* ---------------------------------------------- properties of the aggregator

\* The object of the file read by the last iteration.
Parsed == opened[1].parsed

\* The last iteration read a file that is a JSON object.
ReadObject == opened # None /\ opened[1].json

HasNumericLabel(o) ==
    /\ "label" \in DOMAIN o
    /\ Len(o["label"]) > 0
    /\ \A i \in 1..Len(o["label"]) : \E d \in 1..10 : DecChars[d] = o["label"][i]

\* The entries of o["times"] that hold the times key.
Keyed(o) == {k \in 1..Len(o["times"]) : times_key \in DOMAIN o["times"][k]}

\* The number of timestamps recorded under the times key.
RECURSIVE CountFrom(_, _)
CountFrom(o, k) ==
    IF k > Len(o["times"]) THEN 0
    ELSE (IF k \in Keyed(o) THEN Len(o["times"][k][times_key]) ELSE 0)
         + CountFrom(o, k + 1)

\* The (start, end) pairs of the file: <<entry, pair number>>.
Pairs(o) == {<<k, j>> \in Keyed(o) \X (1..3) : 2 * j <= Len(o["times"][k][times_key])}

\* The duration of a pair, in microseconds.
PairDuration(o, kj) ==
    o["times"][kj[1]][times_key][2 * kj[2]] - o["times"][kj[1]][times_key][2 * kj[2] - 1]

RECURSIVE SumOver(_, _)
SumOver(o, P) ==
    IF P = {} THEN 0
    ELSE LET kj == CHOOSE x \in P : TRUE
         IN  PairDuration(o, kj) + SumOver(o, P \ {kj})

\* The label as a number: its decimal value.
LabelValue(o) ==
    LET l == o["label"]
        RECURSIVE Val(_)
        Val(k) == IF k = 0 THEN 0
                  ELSE 10 * Val(k - 1) + ((CHOOSE d \in 1..10 : DecChars[d] = l[k]) - 1)
    IN  Val(Len(l))

\* The map holds, under (scenario name, label) of o, the triplet (min, max,
\* mean) of the pair durations of o in milliseconds (a count of 1e-6 ms; the
\* mean a fraction).
HoldsTriplet(o) ==
    /\ o["scenario_name"] \in DOMAIN all_scenarios
    /\ LabelValue(o) \in DOMAIN all_scenarios[o["scenario_name"]]
    /\ LET t == all_scenarios[o["scenario_name"]][LabelValue(o)]
           P == Pairs(o)
       IN  /\ P # {}
           /\ \E kj \in P : t[1] = 1000 * PairDuration(o, kj)
           /\ \A kj \in P : t[1] <= 1000 * PairDuration(o, kj)
           /\ \E kj \in P : t[2] = 1000 * PairDuration(o, kj)
           /\ \A kj \in P : t[2] >= 1000 * PairDuration(o, kj)
           /\ t[3][1] * Cardinality(P) = t[3][2] * 1000 * SumOver(o, P)

\* The file of the claim: times = [{"execute_times": [1.0, 1.002]}].
ExampleTimes == <<[execute_times |-> <<1000000, 1002000>>]>>

\* C6 as stated: a file with a numeric label (and a scenario name) and at
\* least two timestamps under the times key, in whole (start, end) pairs, is
\* accumulated under (scenario name, label) with the triplet of its
\* durations; the file with times = [{"execute_times": [1.0, 1.002]}] yields
\* (2.0, 2.0, 2.0).
C6_Original ==
    (/\ ReadObject
     /\ HasNumericLabel(Parsed)
     /\ "scenario_name" \in DOMAIN Parsed
     /\ "times" \in DOMAIN Parsed
     /\ \A k \in Keyed(Parsed) : Len(Parsed["times"][k][times_key]) % 2 = 0
     /\ CountFrom(Parsed, 1) >= 2) =>
        /\ apc # "aborted"
        /\ HoldsTriplet(Parsed)
        /\ Parsed["times"] = ExampleTimes =>
               all_scenarios[Parsed["scenario_name"]][LabelValue(Parsed)]
                   = <<2000000, 2000000, <<2000000, 1>>>>

\* What the code asks of a file to accumulate it: a numeric label, a scenario
\* name, at least two entries in "times", whole (start, end) pairs in every
\* entry that holds the times key, and at least one pair.
Accumulated(o) ==
    /\ HasNumericLabel(o)
    /\ "scenario_name" \in DOMAIN o
    /\ "times" \in DOMAIN o
    /\ Len(o["times"]) >= 2
    /\ \A k \in Keyed(o) : Len(o["times"][k][times_key]) % 2 = 0
    /\ CountFrom(o, 1) >= 2

\* C6, amended: a file with a numeric label, a scenario name, at least two
\* entries in its times list, whole (start, end) pairs under the times key and
\* at least one such pair is accumulated under (scenario name, label) with the
\* triplet (min, max, mean) of its end - start durations times 1000; the file
\* with times = [{}, {"execute_times": [1.0, 1.002]}] yields (2.0, 2.0, 2.0),
\* and the file with times = [{"execute_times": [1.0, 1.002]}], a list of one
\* entry, is skipped as having no recorded times.
C6_Triplet ==
    /\ (ReadObject /\ Accumulated(Parsed)) =>
        /\ apc # "aborted"
        /\ printed = ""
        /\ HoldsTriplet(Parsed)
        /\ Parsed["times"] = <<EmptyEntry>> \o ExampleTimes =>
               all_scenarios[Parsed["scenario_name"]][LabelValue(Parsed)]
                   = <<2000000, 2000000, <<2000000, 1>>>>
    /\ (ReadObject /\ "label" \in DOMAIN Parsed /\ "times" \in DOMAIN Parsed
            /\ Parsed["times"] = ExampleTimes) =>
        /\ apc # "aborted"
        /\ printed = "no recorded times in file."

\* The file of three pairs was accumulated: min 2.001 ms, max 4 ms, mean
\* 9.001 / 3 ms.
C6_Witness ==
    /\ ReadObject
    /\ Accumulated(Parsed)
    /\ Len(Parsed["times"]) = 4
    /\ HoldsTriplet(Parsed)
    /\ all_scenarios[Parsed["scenario_name"]][LabelValue(Parsed)]
           = <<2001000, 4000000, <<9001000, 3>>>>

\* The file read has no label, or a label that is no number.
BadLabel(f) ==
    /\ f.json
    /\ \/ "label" \notin DOMAIN f.parsed
       \/ ~HasNumericLabel(f.parsed)

\* C7: a file without a label, or with a label that is no number, is skipped:
\* the iteration that reads it leaves the scenario map as it was and goes on
\* to the next file.
C7_BadLabelSkipped ==
    [][(counter' = counter + 1 /\ BadLabel(opened'[1])) =>
           (all_scenarios' = all_scenarios /\ apc' = "loop" /\ printed' # "")]_vars

\* The file read is an incomplete result: no times field, no scenario_name
\* field, no entry holding the times key, or an odd number of timestamps in an
\* entry.
Incomplete(f) ==
    /\ f.json
    /\ \/ "times" \notin DOMAIN f.parsed
       \/ "scenario_name" \notin DOMAIN f.parsed
       \/ Keyed(f.parsed) = {}
       \/ \E k \in Keyed(f.parsed) : Len(f.parsed["times"][k][times_key]) % 2 = 1

\* C8: the aggregator never aborts on an incomplete result file: the file is
\* skipped with a printed reason and the loop goes on.
C8_NeverAborts ==
    (opened # None /\ Incomplete(opened[1])) =>
        /\ apc # "aborted"
        /\ printed # ""

====
